---- MODULE Spec2Model ----
(***************************************************************************)
(* UV index pipeline of Parcer_weather: fetch_uv / save / get_uv of        *)
(* uv_india.py and the banner endpoint UVHandler.do_GET of uv_api.py.      *)
(*                                                                         *)
(* Strings that the code transforms (city names, the op parameter) are     *)
(* sequences of one-character strings, so that strip(), title() and        *)
(* lower() are computed.  UV values and thresholds are in hundredths       *)
(* (6.0 is 600, 5.99 is 599).  The reading's pass-through weather fields   *)
(* (temperature, feels_like, humidity, wind_speed, weather_desc) are       *)
(* copied unchanged from the reply to both stores and take no part in any  *)
(* decision; the model carries timestamp, city, uv_index and uv_desc.      *)
(***************************************************************************)
EXTENDS Integers, Sequences, FiniteSets, TLC

VARIABLES
    local,        \* rows of the SQLite table uv_index, in insertion order
    tableExists,  \* whether the SQLite table uv_index has been created
    remote,       \* rows of the Supabase table, in insertion order
    configured,   \* supabase_enabled(): SUPABASE_URL and SUPABASE_KEY are set
    clock,        \* datetime.now(), as a counter
    op,           \* the operation that ran last, with its arguments
    calls,        \* the external calls that operation made, in order, with outcomes
    result,       \* what that operation returned, raised or answered
    handlers,     \* the handler threads of ThreadingHTTPServer, one per request
    writer        \* the thread whose connection holds SQLite's write lock

vars == <<local, tableExists, remote, configured, clock, op, calls, result,
          handlers, writer>>

\* ------------------------------------------------------------------ bounds
\* Number of readings the upstream provider hands out in one behaviour.
MaxFetches == 2

\* Number of requests the HTTP server receives in one behaviour of
\* SpecServe, each handled by a thread of its own.
NumThreads == 2

\* ----------------------------------------------------------------- strings
LowerCase == <<"a", "d", "e", "g", "h", "i", "l", "o", "q", "s", "t">>
UpperCase == <<"A", "D", "E", "G", "H", "I", "L", "O", "Q", "S", "T">>

IsLower(c) == \E i \in DOMAIN LowerCase : LowerCase[i] = c
IsUpper(c) == \E i \in DOMAIN UpperCase : UpperCase[i] = c
IsCased(c) == IsLower(c) \/ IsUpper(c)
IsSpace(c) == c = " "

\* str.upper() / str.lower() of one character
ToUpper(c) ==
    IF IsLower(c) THEN UpperCase[CHOOSE i \in DOMAIN LowerCase : LowerCase[i] = c] ELSE c
ToLower(c) ==
    IF IsUpper(c) THEN LowerCase[CHOOSE i \in DOMAIN UpperCase : UpperCase[i] = c] ELSE c

\* str.lower()
Lower(s) == [i \in DOMAIN s |-> ToLower(s[i])]

RECURSIVE LStrip(_)
LStrip(s) == IF s # <<>> /\ IsSpace(Head(s)) THEN LStrip(Tail(s)) ELSE s

RECURSIVE RStrip(_)
RStrip(s) ==
    IF s # <<>> /\ IsSpace(s[Len(s)]) THEN RStrip(SubSeq(s, 1, Len(s) - 1)) ELSE s

\* str.strip()
Strip(s) == RStrip(LStrip(s))

\* str.title(): a cased character is upper-cased when the character before it
\* is not cased (or there is none), and lower-cased otherwise.
Title(s) ==
    [i \in DOMAIN s |->
        IF i > 1 /\ IsCased(s[i - 1]) THEN ToLower(s[i]) ELSE ToUpper(s[i])]

\* city.strip().title()
Canon(city) == Title(Strip(city))

\* ------------------------------------------------------------------ cities
Delhi == <<"D", "e", "l", "h", "i">>
Goa   == <<"G", "o", "a">>

\* The keys of the CITIES table (two of its seventeen entries).
CITIES == {Delhi, Goa}

DEFAULT_CITY == Delhi

\* Python None (also the empty string: both are falsy in "if city:")
None == <<>>

\* ----------------------------------------------------------------- fetch_uv
\* uv_index values the provider may report, in hundredths
UvValues == {0, 600}

\* The bands with each boundary value counted into the upper band.
UvDescExclusive(uv) ==
    IF uv < 200 THEN "Low"
    ELSE IF uv < 500 THEN "Moderate"
    ELSE IF uv < 700 THEN "High"
    ELSE IF uv < 1000 THEN "Very High"
    ELSE "Extreme"

UvDesc(uv) ==
    IF uv <= 200 THEN "Low"
    ELSE IF uv <= 500 THEN "Moderate"
    ELSE IF uv <= 700 THEN "High"
    ELSE IF uv <= 1000 THEN "Very High"
    ELSE "Extreme"

\* What one GET to the forecast API may produce: a body with the current
\* fields, a transport error, a non-2xx status, or a body without the fields.
Replies ==
    [kind : {"ok"}, uv : UvValues]
        \cup [kind : {"transport", "http", "malformed"}, uv : {0}]

\* The empty dict {}
EmptyDict == <<>>

\* bool(d) of a dict
Truthy(d) == DOMAIN d # {}

\* fetch_uv reading the payload with defaults (current.get("uv_index", 0))
\* instead of indexing it: a body without the fields yields a reading.
FetchUvDefaultsMissing(city, script, now) ==
    LET city_title == Canon(city)
        reply == script[1]
    IN  IF city_title \notin CITIES
        THEN [exc |-> "SystemExit", attempts |-> 0, data |-> EmptyDict]
        ELSE IF reply.kind \in {"transport", "http"}
        THEN [exc |-> "RequestException", attempts |-> 1, data |-> EmptyDict]
        ELSE [exc |-> "none", attempts |-> 1,
              data |-> [timestamp |-> now, city |-> city_title,
                        uv_index |-> reply.uv, uv_desc |-> UvDesc(reply.uv)]]

\* fetch_uv(city) with the provider answering script[1], script[2], ... to
\* successive requests, at time now.  exc names the exception that leaves
\* fetch_uv ("none" when it returns), attempts counts the requests made.
FetchUv(city, script, now) ==
    LET city_title == Canon(city)
        reply == script[1]
    IN  IF city_title \notin CITIES
        THEN [exc |-> "SystemExit", attempts |-> 0, data |-> EmptyDict]
        ELSE IF reply.kind \in {"transport", "http"}
        THEN [exc |-> "RequestException", attempts |-> 1, data |-> EmptyDict]
        ELSE IF reply.kind = "malformed"
        THEN [exc |-> "KeyError", attempts |-> 1, data |-> EmptyDict]
        ELSE [exc |-> "none", attempts |-> 1,
              data |-> [timestamp |-> now, city |-> city_title,
                        uv_index |-> reply.uv, uv_desc |-> UvDesc(reply.uv)]]

\* ------------------------------------------------------------------ stores
\* A database state: the two tables and the configuration the code reads.
\*   [local, tableExists, remote, configured]
Db == [local |-> local, tableExists |-> tableExists,
       remote |-> remote, configured |-> configured]

\* Outcomes of the SQLite write of save: done, sqlite3.Error raised by
\* init_db (nothing created), sqlite3.Error raised by INSERT/commit (the
\* table was created and committed by init_db, the row was not).
LocalWriteOutcomes == {"ok", "connect_error", "insert_error"}

\* Outcomes of one Supabase REST call: 2xx, or a requests.RequestException
\* (connection error, timeout, or raise_for_status on a non-2xx answer).
RemoteOutcomes == {"ok", "error"}

Call(fn, res) == [fn |-> fn, res |-> res]

\* The row a reading becomes once stored under the surrogate key id.
Row(id, data) ==
    [id |-> id, timestamp |-> data.timestamp, city |-> data.city,
     uv_index |-> data.uv_index, uv_desc |-> data.uv_desc]

\* The reading held by a row (a row without its surrogate key).
Reading(row) ==
    [timestamp |-> row.timestamp, city |-> row.city,
     uv_index |-> row.uv_index, uv_desc |-> row.uv_desc]

supabase_enabled(db) == db.configured

\* save_to_supabase(data): a plain POST of the row to the table.
SaveToSupabase(data, rw, db) ==
    IF ~supabase_enabled(db)
    THEN [exc |-> "none", remote |-> db.remote, calls |-> <<>>]
    ELSE IF rw = "ok"
    THEN [exc |-> "none",
          remote |-> Append(db.remote, Row(Len(db.remote) + 1, data)),
          calls |-> <<Call("remote_post", "ok")>>]
    ELSE [exc |-> "RequestException", remote |-> db.remote,
          calls |-> <<Call("remote_post", "error")>>]

\* The city filter comparing the name as the caller spelled it.
RowsForNameAsGiven(rows, city) ==
    IF Truthy(city)
    THEN SelectSeq(rows, LAMBDA r : r.city = city)
    ELSE rows

\* The rows of a table for a city filter (None: no filter).
RowsFor(rows, city) ==
    IF Truthy(city)
    THEN SelectSeq(rows, LAMBDA r : r.city = Canon(city))
    ELSE rows

\* get_uv_from_supabase(city): order=timestamp.desc, limit=1.
GetUvFromSupabase(city, rr, db) ==
    IF ~supabase_enabled(db)
    THEN [exc |-> "none", row |-> EmptyDict, calls |-> <<>>]
    ELSE IF rr # "ok"
    THEN [exc |-> "RequestException", row |-> EmptyDict,
          calls |-> <<Call("remote_get", "error")>>]
    ELSE LET rows == RowsFor(db.remote, city)
             idx == {i \in DOMAIN rows :
                       \A j \in DOMAIN rows : rows[j].timestamp <= rows[i].timestamp}
         IN  [exc |-> "none",
              row |-> IF rows = <<>> THEN EmptyDict ELSE rows[CHOOSE i \in idx : TRUE],
              calls |-> <<Call("remote_get", "ok")>>]

\* The SQLite part of get_uv ordering by id ascending: the oldest row.
LocalLatestAscending(city, db) ==
    IF ~db.tableExists
    THEN [exc |-> "sqlite3.Error", row |-> EmptyDict,
          calls |-> <<Call("local_select", "no_table")>>]
    ELSE LET rows == RowsFor(db.local, city)
         IN  [exc |-> "none",
              row |-> IF rows = <<>> THEN EmptyDict ELSE rows[1],
              calls |-> <<Call("local_select", "ok")>>]

\* The SQLite part of get_uv: ORDER BY id DESC LIMIT 1.  The connection is
\* opened without init_db, so the SELECT raises "no such table" until some
\* save has created it.
LocalLatest(city, db) ==
    IF ~db.tableExists
    THEN [exc |-> "sqlite3.Error", row |-> EmptyDict,
          calls |-> <<Call("local_select", "no_table")>>]
    ELSE LET rows == RowsFor(db.local, city)
         IN  [exc |-> "none",
              row |-> IF rows = <<>> THEN EmptyDict ELSE rows[Len(rows)],
              calls |-> <<Call("local_select", "ok")>>]

\* save with the SQLite write wrapped like the Supabase write: its error is
\* printed and save returns.
SaveLocalErrorSwallowed(data, lw, rw, db) ==
    IF lw = "connect_error"
    THEN [exc |-> "none", db |-> db,
          calls |-> <<Call("local_insert", lw)>>]
    ELSE IF lw = "insert_error"
    THEN [exc |-> "none", db |-> [db EXCEPT !.tableExists = TRUE],
          calls |-> <<Call("local_insert", lw)>>]
    ELSE LET db1 == [db EXCEPT !.tableExists = TRUE,
                               !.local = Append(db.local, Row(Len(db.local) + 1, data))]
             sup == SaveToSupabase(data, rw, db1)
         IN  [exc |-> IF sup.exc = "RequestException" THEN "none" ELSE sup.exc,
              db |-> [db1 EXCEPT !.remote = sup.remote],
              calls |-> <<Call("local_insert", "ok")>> \o sup.calls]

\* save without the try/except around save_to_supabase.
SaveRemoteErrorEscapes(data, lw, rw, db) ==
    IF lw = "connect_error"
    THEN [exc |-> "sqlite3.Error", db |-> db,
          calls |-> <<Call("local_insert", lw)>>]
    ELSE IF lw = "insert_error"
    THEN [exc |-> "sqlite3.Error", db |-> [db EXCEPT !.tableExists = TRUE],
          calls |-> <<Call("local_insert", lw)>>]
    ELSE LET db1 == [db EXCEPT !.tableExists = TRUE,
                               !.local = Append(db.local, Row(Len(db.local) + 1, data))]
             sup == SaveToSupabase(data, rw, db1)
         IN  [exc |-> sup.exc,
              db |-> [db1 EXCEPT !.remote = sup.remote],
              calls |-> <<Call("local_insert", "ok")>> \o sup.calls]

\* save mirroring to Supabase before it writes SQLite.
SaveRemoteFirst(data, lw, rw, db) ==
    LET sup == SaveToSupabase(data, rw, db)
        db1 == [db EXCEPT !.remote = sup.remote]
    IN  IF lw = "connect_error"
        THEN [exc |-> "sqlite3.Error", db |-> db1,
              calls |-> sup.calls \o <<Call("local_insert", lw)>>]
        ELSE IF lw = "insert_error"
        THEN [exc |-> "sqlite3.Error", db |-> [db1 EXCEPT !.tableExists = TRUE],
              calls |-> sup.calls \o <<Call("local_insert", lw)>>]
        ELSE [exc |-> "none",
              db |-> [db1 EXCEPT !.tableExists = TRUE,
                                 !.local = Append(db.local, Row(Len(db.local) + 1, data))],
              calls |-> sup.calls \o <<Call("local_insert", "ok")>>]

\* save(data): SQLite first, then Supabase when configured, whose
\* requests.RequestException is caught and printed.
Save(data, lw, rw, db) ==
    IF lw = "connect_error"
    THEN [exc |-> "sqlite3.Error", db |-> db,
          calls |-> <<Call("local_insert", lw)>>]
    ELSE IF lw = "insert_error"
    THEN [exc |-> "sqlite3.Error", db |-> [db EXCEPT !.tableExists = TRUE],
          calls |-> <<Call("local_insert", lw)>>]
    ELSE LET db1 == [db EXCEPT !.tableExists = TRUE,
                               !.local = Append(db.local, Row(Len(db.local) + 1, data))]
             sup == SaveToSupabase(data, rw, db1)
         IN  [exc |-> IF sup.exc = "RequestException" THEN "none" ELSE sup.exc,
              db |-> [db1 EXCEPT !.remote = sup.remote],
              calls |-> <<Call("local_insert", "ok")>> \o sup.calls]

\* get_uv without the except clause: the Supabase error leaves get_uv.
GetUvRemoteErrorEscapes(city, rr, db) ==
    LET sup == IF supabase_enabled(db)
               THEN GetUvFromSupabase(city, rr, db)
               ELSE [exc |-> "none", row |-> EmptyDict, calls |-> <<>>]
    IN  IF sup.exc # "none"
        THEN [exc |-> sup.exc, row |-> EmptyDict, calls |-> sup.calls]
        ELSE IF Truthy(sup.row)
        THEN [exc |-> "none", row |-> sup.row, calls |-> sup.calls]
        ELSE LET loc == LocalLatest(city, db)
             IN  [exc |-> loc.exc, row |-> loc.row, calls |-> sup.calls \o loc.calls]

\* get_uv returning what the Supabase read returned, also when it is empty.
GetUvRemoteEmptyIsAbsent(city, rr, db) ==
    LET sup == IF supabase_enabled(db)
               THEN GetUvFromSupabase(city, rr, db)
               ELSE [exc |-> "none", row |-> EmptyDict, calls |-> <<>>]
    IN  IF supabase_enabled(db) /\ sup.exc = "none"
        THEN [exc |-> "none", row |-> sup.row, calls |-> sup.calls]
        ELSE LET loc == LocalLatest(city, db)
             IN  [exc |-> loc.exc, row |-> loc.row, calls |-> sup.calls \o loc.calls]

\* get_uv(city): Supabase first when configured, SQLite when Supabase is
\* not configured, raised a requests.RequestException or gave no row.
GetUv(city, rr, db) ==
    LET sup == IF supabase_enabled(db)
               THEN GetUvFromSupabase(city, rr, db)
               ELSE [exc |-> "none", row |-> EmptyDict, calls |-> <<>>]
    IN  IF sup.exc = "none" /\ Truthy(sup.row)
        THEN [exc |-> "none", row |-> sup.row, calls |-> sup.calls]
        ELSE LET loc == LocalLatest(city, db)
             IN  [exc |-> loc.exc, row |-> loc.row, calls |-> sup.calls \o loc.calls]

\* ------------------------------------------------------------------ main
\* What the environment does to the calls of one operation: the provider's
\* replies to successive requests, and the outcomes of the SQLite write, the
\* Supabase write and the Supabase read.
\*   [script, lw, rw, rr]

\* The requests fetch_uv made to the provider, with what each got.
UpstreamCalls(fetched, script) ==
    [i \in 1..fetched.attempts |-> Call("upstream_get", script[i].kind)]

\* The outcome of "data = fetch_uv(city); save(data)" once save has run.
AfterSave(saved, fetched, env) ==
    [exc |-> saved.exc,
     data |-> fetched.data,
     db |-> saved.db,
     calls |-> UpstreamCalls(fetched, env.script) \o saved.calls]

\* The outcome of "data = fetch_uv(city); save(data)" once fetch_uv has run.
AfterFetch(fetched, env, db) ==
    IF fetched.exc # "none"
    THEN [exc |-> fetched.exc, data |-> EmptyDict, db |-> db,
          calls |-> UpstreamCalls(fetched, env.script)]
    ELSE AfterSave(Save(fetched.data, env.lw, env.rw, db), fetched, env)

\* data = fetch_uv(city); save(data)
FetchAndSave(city, env, db, now) ==
    AfterFetch(FetchUv(city, env.script, now), env, db)

\* The process exit status of main for what left it.
ExitOf(done) ==
    [exc |-> done.exc, exit |-> IF done.exc = "none" THEN 0 ELSE 1,
     db |-> done.db, data |-> done.data, calls |-> done.calls]

\* main() of uv_india.py: argv is the list of command-line arguments after
\* the program name.  exit is the process exit status.
Main(argv, env, db, now) ==
    ExitOf(FetchAndSave(IF Len(argv) > 0 THEN argv[1] ELSE DEFAULT_CITY, env, db, now))

\* ---------------------------------------------------------------- do_GET
gte == <<"g", "t", "e">>
gt  == <<"g", "t">>
lte == <<"l", "t", "e">>
lt  == <<"l", "t">>
eq  == <<"e", "q">>

\* The keys of OPS
OPS == {gte, gt, lte, lt, eq}

\* OPS with gte compared strictly.
ApplyOpStrictGte(o, uv, threshold) ==
    IF o = gte THEN uv > threshold
    ELSE IF o = gt THEN uv > threshold
    ELSE IF o = lte THEN uv <= threshold
    ELSE IF o = lt THEN uv < threshold
    ELSE uv = threshold

\* OPS[op](uv, threshold)
ApplyOp(o, uv, threshold) ==
    IF o = gte THEN uv >= threshold
    ELSE IF o = gt THEN uv > threshold
    ELSE IF o = lte THEN uv <= threshold
    ELSE IF o = lt THEN uv < threshold
    ELSE uv = threshold

\* float(s) of the threshold texts a caller may send, in hundredths; a text
\* outside the table is not a number (ValueError).
FloatTable == [t \in {"6", "5.99", "0"} |->
                 IF t = "6" THEN 600 ELSE IF t = "5.99" THEN 599 ELSE 0]
IsFloat(t) == t \in DOMAIN FloatTable
Float(t) == FloatTable[t]

\* query.get(key, [default])[0]
QueryGet(query, key, default) ==
    IF key \in DOMAIN query THEN query[key] ELSE default

Response(status, body) == [status |-> status, body |-> body]

\* No response was written (the handler thread ended by SystemExit).
NoResponse == [status |-> 0, body |-> EmptyDict]

\* Prefix the calls made before a step to the step's outcome.
After(before, done) == [done EXCEPT !.calls = before \o done.calls]

\* Lines 87-90 once get_uv has run: its error, its row, or fetch and save.
AfterGetUv(cached, city, env, db, now) ==
    IF cached.exc # "none"
    THEN [exc |-> cached.exc, data |-> EmptyDict, db |-> db, calls |-> cached.calls]
    ELSE IF Truthy(cached.row)
    THEN [exc |-> "none", data |-> cached.row, db |-> db, calls |-> cached.calls]
    ELSE After(cached.calls, FetchAndSave(city, env, db, now))

\* The "try" block with the cache consulted first whatever fresh says.
ObtainIgnoresFresh(city, fresh, env, db, now) ==
    AfterGetUv(GetUv(city, env.rr, db), city, env, db, now)

\* The "try" block of do_GET: the reading to use, after fetch/save/get_uv.
Obtain(city, fresh, env, db, now) ==
    IF fresh
    THEN FetchAndSave(city, env, db, now)
    ELSE AfterGetUv(GetUv(city, env.rr, db), city, env, db, now)

\* The 200 response built from the reading (lines 98-118).
Triggered(latest, o, threshold, is_triggered) ==
    Response(200,
        [ok |-> TRUE, city |-> latest.city, timestamp |-> latest.timestamp,
         uv_index |-> latest.uv_index, uv_desc |-> latest.uv_desc,
         op |-> o, threshold |-> threshold,
         matched |-> is_triggered, show_uv_creative |-> is_triggered])

\* What do_GET answers once the "try" block has run: nothing when SystemExit
\* ends the handler thread, 502 for an Exception, else the trigger result.
Answer(got, o, threshold) ==
    [response |->
        IF got.exc = "SystemExit" THEN NoResponse
        ELSE IF got.exc # "none"
        THEN Response(502, [ok |-> FALSE, error |-> got.exc])
        ELSE Triggered(got.data, o, threshold,
                       ApplyOp(o, got.data.uv_index, threshold)),
     db |-> got.db, calls |-> got.calls]

Rejected(status, error, db) ==
    [response |-> Response(status, [ok |-> FALSE, error |-> error]),
     db |-> db, calls |-> <<>>]

\* do_GET validating op only once the reading has been obtained.
BannerUvChecksOpLate(city, o, fresh, text, env, db, now) ==
    IF ~IsFloat(text) THEN Rejected(400, "Invalid threshold", db)
    ELSE IF o \notin OPS
    THEN [Rejected(400, "Invalid op", db) EXCEPT
            !.db = Obtain(city, fresh, env, db, now).db,
            !.calls = Obtain(city, fresh, env, db, now).calls]
    ELSE Answer(Obtain(city, fresh, env, db, now), o, Float(text))

\* do_GET on /banner/uv with the parameters read from the query.
BannerUv(city, o, fresh, text, env, db, now) ==
    IF ~IsFloat(text) THEN Rejected(400, "Invalid threshold", db)
    ELSE IF o \notin OPS THEN Rejected(400, "Invalid op", db)
    ELSE Answer(Obtain(city, fresh, env, db, now), o, Float(text))

\* UVHandler.do_GET for a request path and its parsed query string.
DoGet(path, query, env, db, now) ==
    IF path = "/health"
    THEN [response |-> Response(200, [ok |-> TRUE]), db |-> db, calls |-> <<>>]
    ELSE IF path # "/banner/uv"
    THEN Rejected(404, "Not found", db)
    ELSE BannerUv(QueryGet(query, "city", DEFAULT_CITY),
                  Lower(QueryGet(query, "op", gte)),
                  QueryGet(query, "fresh", "0") \in {"1", "true", "True", "yes"},
                  QueryGet(query, "threshold", "6"),
                  env, db, now)

\* ----------------------------------------------------------------- actions
\* No operation is running and the last result has been taken.
Idle == [name |-> "none"]

Threads == 1..NumThreads

\* No connection holds the write lock.
NoThread == 0

\* The handler thread of a request that has not arrived yet.
IdleHandler ==
    [pc |-> "idle", city |-> None, latest |-> EmptyDict, fetched |-> EmptyDict,
     base |-> <<>>, response |-> NoResponse]

Init ==
    /\ local = <<>>
    /\ tableExists = FALSE
    /\ remote = <<>>
    /\ configured \in BOOLEAN
    /\ clock = 1
    /\ op = Idle
    /\ calls = <<>>
    /\ result = EmptyDict
    /\ handlers = [t \in Threads |-> IdleHandler]
    /\ writer = NoThread

\* Zero or one value for a parameter the caller may leave out.
Optional(S) == {<<>>} \cup {<<v>> : v \in S}

\* The dict parse_qs gives for the parameters that were sent.
MkQuery(sent) == [k \in {k \in DOMAIN sent : sent[k] # <<>>} |-> sent[k][1]]

OpInputs == {<<"L", "T">>, <<"g", "e">>}
ThresholdInputs == {"abc"}
FreshInputs == {"0", "1"}
PathInputs == {"/health", "/banner/uv", "/favicon.ico"}

\* A city name differently cased, one padded and differently cased, and one
\* that is not in the table; a request without the parameter means Delhi.
RequestCities ==
    { <<"d", "e", "l", "h", "i">>, <<" ", "g", "O", "A", " ">>, <<"O", "s", "l", "o">> }

Queries ==
    {MkQuery([city |-> c, op |-> o, threshold |-> t, fresh |-> f]) :
        c \in Optional(RequestCities), o \in Optional(OpInputs),
        t \in Optional(ThresholdInputs), f \in Optional(FreshInputs)}

\* The requests a client may send: the query matters on /banner/uv only.
Requests ==
    [path : {"/banner/uv"}, query : Queries]
        \cup [path : PathInputs \ {"/banner/uv"}, query : {MkQuery(<<>>)}]

Made(cs, fn) == \E i \in DOMAIN cs : cs[i].fn = fn

\* The environment in which every call succeeds.
CalmEnv == [script |-> <<[kind |-> "ok", uv |-> 0]>>, lw |-> "ok", rw |-> "ok", rr |-> "ok"]

\* Every combination of outcomes.
AllEnvs ==
    [script : {<<r>> : r \in Replies}, lw : LocalWriteOutcomes,
     rw : RemoteOutcomes, rr : RemoteOutcomes]

\* The environments of one operation: an outcome is drawn for each call the
\* operation makes, in the order it makes them (Supabase read, provider
\* request, SQLite write, Supabase write); callsOf[e] are the calls the
\* operation makes under environment e.
EnvsFor(callsOf) ==
    LET e1 == {[CalmEnv EXCEPT !.rr = x] :
                 x \in IF Made(callsOf[CalmEnv], "remote_get")
                       THEN RemoteOutcomes ELSE {"ok"}}
        e2 == UNION {{[e EXCEPT !.script = <<x>>] :
                        x \in IF Made(callsOf[e], "upstream_get")
                              THEN Replies ELSE {CalmEnv.script[1]}} : e \in e1}
        e3 == UNION {{[e EXCEPT !.lw = x] :
                        x \in IF Made(callsOf[e], "local_insert")
                              THEN LocalWriteOutcomes ELSE {"ok"}} : e \in e2}
    IN  UNION {{[e EXCEPT !.rw = x] :
                  x \in IF Made(callsOf[e], "remote_post")
                        THEN RemoteOutcomes ELSE {"ok"}} : e \in e3}

SetDb(db) ==
    /\ local' = db.local
    /\ tableExists' = db.tableExists
    /\ remote' = db.remote
    /\ configured' = db.configured

\* datetime.now() advances between the readings the provider hands out, of
\* which there are at most MaxFetches in one behaviour.
Tick(cs) ==
    LET made == \E i \in DOMAIN cs : cs[i] = Call("upstream_get", "ok")
    IN  /\ Made(cs, "upstream_get") => clock <= MaxFetches
        /\ clock' = IF made THEN clock + 1 ELSE clock

\* The operation named by invoked ran to its end with outcome done.
Ran(invoked, done, outcome) ==
    /\ Tick(done.calls)
    /\ SetDb(done.db)
    /\ op' = invoked
    /\ calls' = done.calls
    /\ result' = outcome
    /\ UNCHANGED <<handlers, writer>>

\* python uv_india.py [city]
CliMain ==
    /\ op.name = "none"
    /\ \E argv \in Optional(RequestCities) :
        \E env \in EnvsFor([e \in AllEnvs |-> Main(argv, e, Db, clock).calls]) :
            \E r \in {Main(argv, env, Db, clock)} :
                Ran([name |-> "main", argv |-> argv], r,
                    [exc |-> r.exc, exit |-> r.exit, data |-> r.data])

\* The names a consumer reads under: those of the requests, and two more
\* spellings of Goa and Delhi (upper case, trailing blank).
ReadCities ==
    RequestCities \cup { <<"G", "O", "A">>, <<"D", "e", "l", "h", "i", " ">> }

\* A consumer (dashboard, macro) calls get_uv(city) or get_uv().
ReadLatest ==
    /\ op.name = "none"
    /\ \E city \in ReadCities \cup {None} :
        \E env \in EnvsFor([e \in AllEnvs |-> GetUv(city, e.rr, Db).calls]) :
            \E r \in {GetUv(city, env.rr, Db)} :
                /\ UNCHANGED <<local, tableExists, remote, configured, clock>>
                /\ UNCHANGED <<handlers, writer>>
                /\ op' = [name |-> "get_uv", city |-> city]
                /\ calls' = r.calls
                /\ result' = [exc |-> r.exc, row |-> r.row]

\* One HTTP GET handled by UVHandler.do_GET.
HttpGet ==
    /\ op.name = "none"
    /\ \E req \in Requests :
        \E env \in EnvsFor([e \in AllEnvs |->
                              DoGet(req.path, req.query, e, Db, clock).calls]) :
            \E r \in {DoGet(req.path, req.query, env, Db, clock)} :
                Ran([name |-> "do_GET", path |-> req.path, query |-> req.query],
                    r, r.response)

\* The caller takes the result; operations are invoked one after another.
Return ==
    /\ op.name # "none"
    /\ op' = Idle
    /\ calls' = <<>>
    /\ result' = EmptyDict
    /\ UNCHANGED <<local, tableExists, remote, configured, clock, handlers, writer>>

Next == CliMain \/ ReadLatest \/ HttpGet \/ Return

Spec == Init /\ [][Next]_vars

\* ------------------------------------------------- fetch_uv on its own
\* Number of successive provider replies a script of fetch_uv lists.
ScriptLen == 3

Scripts == [1..ScriptLen -> Replies]

\* A caller invokes fetch_uv(city) while the provider would answer its
\* successive requests with script[1], script[2], ...
FetchCall ==
    /\ op.name = "none"
    /\ \E city \in RequestCities, script \in Scripts :
        LET r == FetchUv(city, script, clock)
        IN  /\ op' = [name |-> "fetch_uv", city |-> city, script |-> script]
            /\ calls' = UpstreamCalls(r, script)
            /\ result' = [exc |-> r.exc, data |-> r.data]
            /\ UNCHANGED <<local, tableExists, remote, configured, clock,
                           handlers, writer>>

NextFetch == FetchCall \/ Return

SpecFetch == Init /\ [][NextFetch]_vars

\* ------------------------------------------ the trigger over its operands
\* The environment in which every call succeeds and the provider reports uv.
Provides(uv) == [CalmEnv EXCEPT !.script = <<[kind |-> "ok", uv |-> uv]>>]

\* 0, 5.99 and 6.0
TriggerUvValues == {0, 599, 600}

\* Every key of OPS, and one in upper case.
TriggerOps == OPS \cup {<<"G", "T", "E">>}

TriggerThresholds == DOMAIN FloatTable

TriggerQueries ==
    {MkQuery([op |-> o, threshold |-> t, fresh |-> f]) :
        o \in Optional(TriggerOps), t \in Optional(TriggerThresholds),
        f \in {<<"0">>, <<"1">>}}

\* One GET /banner/uv for Delhi with a valid op and threshold, while the
\* provider would report uv and both stores work.
TriggerGet ==
    /\ op.name = "none"
    /\ \E query \in TriggerQueries, uv \in TriggerUvValues :
        \E r \in {DoGet("/banner/uv", query, Provides(uv), Db, clock)} :
            Ran([name |-> "do_GET", path |-> "/banner/uv", query |-> query],
                r, r.response)

NextTrigger == TriggerGet \/ Return

SpecTrigger == Init /\ [][NextTrigger]_vars

\* ------------------------------------------------ the bands over uv values
\* The boundary values 2, 5, 7, 10, the value 0.01 above each, and 0.
BandUvValues == {0, 200, 201, 500, 501, 700, 701, 1000, 1001}

\* python uv_india.py [city] while the provider would report uv and both
\* stores work.
BandFetch ==
    /\ op.name = "none"
    /\ \E argv \in Optional({<<" ", "g", "O", "A", " ">>}), uv \in BandUvValues :
        \E r \in {Main(argv, Provides(uv), Db, clock)} :
            Ran([name |-> "main", argv |-> argv], r,
                [exc |-> r.exc, exit |-> r.exit, data |-> r.data])

NextBand == BandFetch \/ Return

SpecBand == Init /\ [][NextBand]_vars

\* ------------------------------------------- requests served concurrently
\* ThreadingHTTPServer runs do_GET of each request in a new thread, which
\* ends ("done") once the response is written.
\* latest is a local variable of do_GET; every save opens a connection of
\* its own, and SQLite lets one connection at a time hold the write lock,
\* from its INSERT to its commit.  A step of a thread is one access to
\* something the threads share (a store, the provider, the client socket).

\* latest kept in a variable of the module, which every handler thread
\* assigns: a thread reads the reading assigned last by any of them.
LatestShared(hs, t) ==
    LET assigned == {u \in DOMAIN hs : Truthy(hs[u].latest)}
    IN  IF assigned = {} THEN EmptyDict
        ELSE hs[CHOOSE u \in assigned :
                  \A v \in assigned :
                      hs[v].latest.timestamp <= hs[u].latest.timestamp].latest

\* The local variable latest of the do_GET call that thread t runs.
LatestOf(hs, t) == hs[t].latest

\* The connection of a thread may start writing: no connection holds the lock.
CanWrite(holder) == holder = NoThread

\* The table once a transaction that began on the rows base commits data.
CommitInsert(base, data) == Append(base, Row(Len(base) + 1, data))

\* The names the concurrent requests ask for.
ServeCities == { <<"d", "e", "l", "h", "i">>, <<" ", "g", "O", "A", " ">> }

\* What the provider may answer a concurrent request.
ServeReplies == {[kind |-> "ok", uv |-> 600], [kind |-> "transport", uv |-> 0]}

Step(t, h) ==
    /\ handlers' = [handlers EXCEPT ![t] = h]
    /\ UNCHANGED <<op, calls, result, configured>>

\* The handler answers 502 with the error that reached "except Exception".
Fails(t, exc) ==
    Step(t, [handlers[t] EXCEPT
                !.pc = "done",
                !.response = Response(502, [ok |-> FALSE, error |-> exc])])

\* do_GET parses a valid request for /banner/uv (op gte, threshold 6).
Accept(t) ==
    /\ op.name = "none"
    /\ handlers[t].pc = "idle"
    /\ \E city \in ServeCities, fresh \in BOOLEAN :
          Step(t, [handlers[t] EXCEPT
                      !.pc = IF fresh THEN "fetch"
                             ELSE IF supabase_enabled(Db) THEN "get_remote"
                             ELSE "get_local",
                      !.city = city])
    /\ UNCHANGED <<local, tableExists, remote, clock, writer>>

\* get_uv: the Supabase read.
GetRemote(t) ==
    /\ handlers[t].pc = "get_remote"
    /\ \E rr \in RemoteOutcomes :
        \E sup \in {GetUvFromSupabase(handlers[t].city, rr, Db)} :
            Step(t, IF sup.exc = "none" /\ Truthy(sup.row)
                    THEN [handlers[t] EXCEPT !.pc = "respond", !.latest = sup.row]
                    ELSE [handlers[t] EXCEPT !.pc = "get_local"])
    /\ UNCHANGED <<local, tableExists, remote, clock, writer>>

\* get_uv: the SQLite read.
GetLocal(t) ==
    /\ handlers[t].pc = "get_local"
    /\ \E loc \in {LocalLatest(handlers[t].city, Db)} :
          IF loc.exc # "none" THEN Fails(t, loc.exc)
          ELSE Step(t, IF Truthy(loc.row)
                       THEN [handlers[t] EXCEPT !.pc = "respond", !.latest = loc.row]
                       ELSE [handlers[t] EXCEPT !.pc = "fetch"])
    /\ UNCHANGED <<local, tableExists, remote, clock, writer>>

\* latest = fetch_uv(city)
Fetch(t) ==
    /\ handlers[t].pc = "fetch"
    /\ clock <= MaxFetches
    /\ \E reply \in ServeReplies :
        \E r \in {FetchUv(handlers[t].city, <<reply>>, clock)} :
            IF r.exc # "none"
            THEN Fails(t, r.exc) /\ clock' = clock
            ELSE /\ Step(t, [handlers[t] EXCEPT
                               !.pc = "init_db", !.latest = r.data, !.fetched = r.data])
                 /\ clock' = clock + 1
    /\ UNCHANGED <<local, tableExists, remote, writer>>

\* save: conn = init_db()
InitDb(t) ==
    /\ handlers[t].pc = "init_db"
    /\ \/ /\ Step(t, [handlers[t] EXCEPT !.pc = "insert"])
          /\ tableExists' = TRUE
       \/ /\ Fails(t, "sqlite3.Error")
          /\ tableExists' = tableExists
    /\ UNCHANGED <<local, remote, clock, writer>>

\* save: conn.execute("INSERT ...") opens the write transaction, or raises
\* (the database stayed locked for the busy timeout, or another error).
Insert(t) ==
    /\ handlers[t].pc = "insert"
    /\ \/ /\ CanWrite(writer)
          /\ Step(t, [handlers[t] EXCEPT !.pc = "commit", !.base = local])
          /\ writer' = t
       \/ /\ Fails(t, "sqlite3.Error")
          /\ writer' = writer
    /\ UNCHANGED <<local, tableExists, remote, clock>>

\* save: conn.commit() and conn.close(); a commit that raises rolls back.
Commit(t) ==
    /\ handlers[t].pc = "commit"
    /\ \/ /\ Step(t, [handlers[t] EXCEPT
                          !.pc = IF supabase_enabled(Db) THEN "post" ELSE "respond",
                          !.base = <<>>])
          /\ local' = CommitInsert(handlers[t].base, LatestOf(handlers, t))
       \/ /\ Fails(t, "sqlite3.Error")
          /\ local' = local
    /\ writer' = NoThread
    /\ UNCHANGED <<tableExists, remote, clock>>

\* save: save_to_supabase(data), its RequestException caught.
Post(t) ==
    /\ handlers[t].pc = "post"
    /\ \E rw \in RemoteOutcomes :
          remote' = SaveToSupabase(LatestOf(handlers, t), rw, Db).remote
    /\ Step(t, [handlers[t] EXCEPT !.pc = "respond"])
    /\ UNCHANGED <<local, tableExists, clock, writer>>

\* The 200 response is written from latest.
Respond(t) ==
    /\ handlers[t].pc = "respond"
    /\ Step(t, [handlers[t] EXCEPT
                   !.pc = "done",
                   !.response = Triggered(LatestOf(handlers, t), gte, Float("6"),
                                    ApplyOp(gte, LatestOf(handlers, t).uv_index,
                                            Float("6")))])
    /\ UNCHANGED <<local, tableExists, remote, clock, writer>>

NextServe ==
    \E t \in Threads :
        \/ Accept(t)
        \/ GetRemote(t)
        \/ GetLocal(t)
        \/ Fetch(t)
        \/ InitDb(t)
        \/ Insert(t)
        \/ Commit(t)
        \/ Post(t)
        \/ Respond(t)

SpecServe == Init /\ [][NextServe]_vars

\* ================================================================= claims
\* The positions of the rows stored for a location key in a table.
StoredFor(rows, key) == {i \in DOMAIN rows : rows[i].city = key}

\* The row most recently inserted for a key (the set is not empty).
NewestFor(rows, key) ==
    rows[CHOOSE i \in StoredFor(rows, key) : \A j \in StoredFor(rows, key) : j <= i]

Count(cs, fn) == Cardinality({i \in DOMAIN cs : cs[i].fn = fn})
Has(cs, fn, res) == \E i \in DOMAIN cs : cs[i] = Call(fn, res)

\* The operation that ran last is get_uv(city) with a city given.
IsGetUvFor == op.name = "get_uv" /\ Truthy(op.city)

\* The operation that ran last is main() and it called save.
MainSaved == op.name = "main" /\ Made(calls, "local_insert")

\* C1: with Supabase configured, get_uv(key) returns the reading written by
\* the most recent save for that key (every save that returned appended its
\* reading to the SQLite table, so that reading is the newest row for the
\* key there), whatever the outcomes of the Supabase writes were.
C1_LatestIsMostRecentSave ==
    (IsGetUvFor /\ configured /\ StoredFor(local, Canon(op.city)) # {})
        => /\ result.exc = "none"
           /\ Truthy(result.row)
           /\ Reading(result.row) = Reading(NewestFor(local, Canon(op.city)))

\* C2: save writes SQLite whether or not Supabase is configured; when the
\* Supabase write fails, save returns normally (main exits 0, do_GET
\* answers 200) and the reading of that save is the newest SQLite row.
C2_LocalWriteSurvivesRemoteFailure ==
    /\ (op.name = "main" /\ Has(calls, "upstream_get", "ok"))
            => calls[2].fn = "local_insert"
    /\ (MainSaved /\ Has(calls, "local_insert", "ok"))
            => /\ local # <<>>
               /\ Reading(local[Len(local)]) = result.data
    /\ (MainSaved /\ Has(calls, "remote_post", "error"))
            => /\ result.exc = "none"
               /\ result.exit = 0
               /\ local # <<>>
               /\ Reading(local[Len(local)]) = result.data
    /\ (op.name = "do_GET" /\ Has(calls, "remote_post", "error"))
            => /\ result.status = 200
               /\ local # <<>>
               /\ local[Len(local)].timestamp = result.body.timestamp
               /\ local[Len(local)].uv_index = result.body.uv_index

C2_Witness ==
    /\ MainSaved
    /\ configured
    /\ Has(calls, "remote_post", "error")
    /\ result.exit = 0
    /\ Reading(local[Len(local)]) = result.data
    /\ remote = <<>>

\* C3: get_uv asks Supabase first when it is configured; when that read
\* raises, get_uv goes on to SQLite, does not raise the Supabase error and
\* returns the newest SQLite row for the key; when Supabase is not
\* configured it reads SQLite only.
C3_RemoteFirstThenLocal ==
    IsGetUvFor =>
        /\ configured => calls[1].fn = "remote_get"
        /\ Has(calls, "remote_get", "error") =>
              /\ Len(calls) = 2 /\ calls[2].fn = "local_select"
              /\ result.exc # "RequestException"
              /\ result.exc = "none" =>
                    result.row = IF StoredFor(local, Canon(op.city)) = {}
                                 THEN EmptyDict
                                 ELSE NewestFor(local, Canon(op.city))
        /\ ~configured =>
              /\ Len(calls) = 1 /\ calls[1].fn = "local_select"
              /\ result.exc = "none" =>
                    result.row = IF StoredFor(local, Canon(op.city)) = {}
                                 THEN EmptyDict
                                 ELSE NewestFor(local, Canon(op.city))

C3_Witness ==
    /\ IsGetUvFor
    /\ Has(calls, "remote_get", "error")
    /\ result.exc = "none"
    /\ Truthy(result.row)
    /\ remote # <<>>

\* -------------------------------------------------- requests to /banner/uv
\* The operation that ran last is a GET /banner/uv that passed the checks of
\* threshold and op.
IsBannerGet ==
    /\ op.name = "do_GET"
    /\ op.path = "/banner/uv"
    /\ result.status \notin {400, 404}

\* The location key the request is about.
ReqKey == Canon(QueryGet(op.query, "city", DEFAULT_CITY))

\* fresh=1 was sent; fresh=0 was sent or the parameter was left out.
ReqFresh1 == "fresh" \in DOMAIN op.query /\ op.query["fresh"] = "1"
ReqFresh0 == "fresh" \in DOMAIN op.query => op.query["fresh"] = "0"

\* The row of a table with the greatest timestamp for a key.
LatestByTime(rows, key) ==
    rows[CHOOSE i \in StoredFor(rows, key) :
            \A j \in StoredFor(rows, key) : rows[j].timestamp <= rows[i].timestamp]

\* The reading a 200 response reports.
BodyReading ==
    [timestamp |-> result.body.timestamp, city |-> result.body.city,
     uv_index |-> result.body.uv_index, uv_desc |-> result.body.uv_desc]

\* C4 as stated: every fresh=1 request (for a city of the table) performs
\* one upstream fetch and one store write.
C4_FreshAlwaysFetchesAndWrites ==
    (IsBannerGet /\ ReqFresh1 /\ ReqKey \in CITIES)
        => /\ Count(calls, "upstream_get") = 1
           /\ Count(calls, "local_insert") = 1

\* C4, amended: a fresh=1 request for a city of the table does not read the
\* store and performs exactly one upstream fetch, also when a reading for
\* the city is stored, and one store write when that fetch succeeded (none
\* when it failed); a fresh=0 request for a city with a stored reading
\* performs no upstream fetch and answers 200 with the stored reading that
\* get_uv selects (Supabase's latest when its read gave a row, else the
\* newest SQLite row).
C4_FreshFetchesCachedDoesNot ==
    [][ (op'.name = "do_GET" /\ op'.path = "/banner/uv"
            /\ result'.status \notin {400, 404})
        => LET key == Canon(QueryGet(op'.query, "city", DEFAULT_CITY))
               fresh1 == "fresh" \in DOMAIN op'.query /\ op'.query["fresh"] = "1"
               fresh0 == "fresh" \in DOMAIN op'.query => op'.query["fresh"] = "0"
               body == result'.body
           IN  /\ (fresh1 /\ key \in CITIES)
                    => /\ Count(calls', "upstream_get") = 1
                       /\ Count(calls', "remote_get") = 0
                       /\ Count(calls', "local_select") = 0
                       /\ Count(calls', "local_insert")
                             = IF Has(calls', "upstream_get", "ok") THEN 1 ELSE 0
               /\ (fresh0 /\ StoredFor(local, key) # {})
                    => /\ Count(calls', "upstream_get") = 0
                       /\ Count(calls', "local_insert") = 0
                       /\ result'.status = 200
                       /\ LET row == IF Has(calls', "remote_get", "ok")
                                        /\ StoredFor(remote, key) # {}
                                     THEN LatestByTime(remote, key)
                                     ELSE NewestFor(local, key)
                          IN  /\ body.timestamp = row.timestamp
                              /\ body.city = row.city
                              /\ body.uv_index = row.uv_index
                              /\ body.uv_desc = row.uv_desc
      ]_vars

\* A fresh=1 request answered 200 for a city that already had a stored row.
C4_Witness ==
    /\ IsBannerGet
    /\ ReqFresh1
    /\ result.status = 200
    /\ Count(calls, "upstream_get") = 1
    /\ Cardinality(StoredFor(local, ReqKey)) = 2

\* C5: a fresh=0 request for a city of the table without a stored reading
\* fetches (so a request that did not fetch found a stored reading), and
\* when the fetch and the SQLite write succeed it answers 200 with the
\* fetched reading, which is then the newest SQLite row.
C5_CacheFillOnMiss ==
    (IsBannerGet /\ ReqFresh0 /\ ReqKey \in CITIES)
        => /\ ~Made(calls, "upstream_get")
                => (StoredFor(local, ReqKey) # {} \/ StoredFor(remote, ReqKey) # {})
           /\ (Has(calls, "upstream_get", "ok") /\ Has(calls, "local_insert", "ok"))
                => /\ result.status = 200
                   /\ BodyReading = Reading(local[Len(local)])

\* C6: get_uv(key) returns the empty value without raising whenever neither
\* store holds a reading for the key, and a stored reading is never
\* reported as absent, also when its uv_index is 0.
C6_AbsentWithoutError ==
    IsGetUvFor
        => /\ (StoredFor(local, Canon(op.city)) = {}
                    /\ StoredFor(remote, Canon(op.city)) = {})
                => (result.exc = "none" /\ result.row = EmptyDict)
           /\ (result.exc = "none" /\ StoredFor(local, Canon(op.city)) # {})
                => Truthy(result.row)

\* C7: the Supabase table holds at most one row per location key.
C7_OneRemoteRowPerKey ==
    \A key \in CITIES : Cardinality(StoredFor(remote, key)) <= 1

\* C8: when the provider fails twice and then answers, fetch_uv makes exactly
\* three requests and returns the third reply's reading; fetch_uv fails only
\* after three failed requests.
C8_ThreeAttempts ==
    (op.name = "fetch_uv" /\ Canon(op.city) \in CITIES)
        => /\ (op.script[1].kind = "transport" /\ op.script[2].kind = "transport"
                    /\ op.script[3].kind = "ok")
                => /\ Len(calls) = 3
                   /\ result.exc = "none"
                   /\ result.data.uv_index = op.script[3].uv
           /\ result.exc = "RequestException" => Len(calls) = 3

\* C9: when the upstream fetch fails (transport error, non-2xx answer, body
\* without the fields), the operation makes no store write and leaves both
\* stores as they were; do_GET answers 502 and main ends with an error.
C9_FailedFetchStoresNothing ==
    [][ (op'.name \in {"main", "do_GET"}
            /\ \E i \in DOMAIN calls' :
                  /\ calls'[i].fn = "upstream_get"
                  /\ calls'[i].res \in {"transport", "http", "malformed"})
        => /\ local' = local
           /\ remote' = remote
           /\ tableExists' = tableExists
           /\ Count(calls', "local_insert") = 0
           /\ Count(calls', "remote_post") = 0
           /\ op'.name = "do_GET" => result'.status = 502
           /\ op'.name = "main" => (result'.exc # "none" /\ result'.exit # 0)
      ]_vars

\* A request whose fetch got a body without the fields, with a row stored.
C9_Witness ==
    /\ op.name = "do_GET"
    /\ Has(calls, "upstream_get", "malformed")
    /\ result.status = 502
    /\ local # <<>>

\* C10: when the SQLite write of save fails, main ends with the error and
\* do_GET answers 502, and no row was stored by that save; when only the
\* Supabase write fails, main exits 0 and do_GET answers 200; a save that
\* returned left its reading as the newest SQLite row.
C10_LocalFailurePropagates ==
    LET localFailed == Has(calls, "local_insert", "connect_error")
                          \/ Has(calls, "local_insert", "insert_error")
    IN  /\ (op.name = "main" /\ localFailed)
            => /\ result.exc = "sqlite3.Error"
               /\ result.exit # 0
               /\ \A i \in DOMAIN local : Reading(local[i]) # result.data
        /\ (op.name = "do_GET" /\ localFailed) => result.status = 502
        /\ (op.name = "main" /\ Has(calls, "remote_post", "error"))
            => (result.exc = "none" /\ result.exit = 0)
        /\ (op.name = "do_GET" /\ Has(calls, "remote_post", "error"))
            => result.status = 200
        /\ (op.name = "main" /\ Has(calls, "upstream_get", "ok") /\ result.exc = "none")
            => (local # <<>> /\ Reading(local[Len(local)]) = result.data)

C10_Witness ==
    /\ op.name = "do_GET"
    /\ Has(calls, "local_insert", "insert_error")
    /\ result.status = 502
    /\ configured

\* ------------------------------------------------------ request validation
\* C11: a GET /banner/uv whose threshold is not a number, or whose op
\* (lower-cased) is not one of gte, gt, lte, lt, eq, is answered 400 and makes
\* no call at all: no upstream fetch, no store read, no store write; both
\* stores are left as they were.
C11_InvalidRequestTouchesNothing ==
    [][ (op'.name = "do_GET" /\ op'.path = "/banner/uv"
            /\ \/ ~IsFloat(QueryGet(op'.query, "threshold", "6"))
               \/ Lower(QueryGet(op'.query, "op", gte)) \notin {gte, gt, lte, lt, eq})
        => /\ result'.status = 400
           /\ calls' = <<>>
           /\ local' = local
           /\ remote' = remote
           /\ tableExists' = tableExists
      ]_vars

\* An invalid op on a fresh=1 request for a city with a stored reading.
C11_Witness ==
    /\ op.name = "do_GET"
    /\ op.path = "/banner/uv"
    /\ "op" \in DOMAIN op.query /\ op.query["op"] = <<"g", "e">>
    /\ "threshold" \notin DOMAIN op.query
    /\ ReqFresh1
    /\ result.status = 400
    /\ calls = <<>>
    /\ StoredFor(local, ReqKey) # {}

\* C12: every GET /banner/uv ends with one HTTP response whose status is
\* 200, 400 or 502, whatever the city name and the state of the stores; a
\* city name that is not in the table is answered with an error response.
C12_AlwaysOneResponse ==
    (op.name = "do_GET" /\ op.path = "/banner/uv")
        => /\ result # NoResponse
           /\ result.status \in {200, 400, 502}
           /\ ReqKey \notin CITIES => result.status \in {400, 502}

\* ------------------------------------------------------------- the trigger
\* The op and the threshold the request asks for.
ReqOp == Lower(QueryGet(op.query, "op", gte))
ReqThreshold == Float(QueryGet(op.query, "threshold", "6"))

\* C13: in every 200 response, built from a stored reading, trigger.matched
\* is op(uv_index, threshold) with gte as >=, gt as >, lte as <=, lt as <,
\* eq as =, for the op and threshold of the request, and show_uv_creative
\* equals matched; with threshold 6 and op gte, uv_index 6.0 gives TRUE and
\* 5.99 gives FALSE.
C13_MatchedIsOpOfReading ==
    (IsBannerGet /\ result.status = 200)
        => LET uv == result.body.uv_index
               t == ReqThreshold
           IN  /\ \E i \in DOMAIN local : Reading(local[i]) = BodyReading
               /\ result.body.op = ReqOp
               /\ result.body.threshold = t
               /\ ReqOp = gte => (result.body.matched <=> uv >= t)
               /\ ReqOp = gt => (result.body.matched <=> uv > t)
               /\ ReqOp = lte => (result.body.matched <=> uv <= t)
               /\ ReqOp = lt => (result.body.matched <=> uv < t)
               /\ ReqOp = eq => (result.body.matched <=> uv = t)
               /\ result.body.show_uv_creative = result.body.matched
               /\ (ReqOp = gte /\ t = 600 /\ uv = 600) => result.body.matched
               /\ (ReqOp = gte /\ t = 600 /\ uv = 599) => ~result.body.matched

\* threshold=6, op=GTE and a cached reading with uv_index 6.0.
C13_Witness ==
    /\ IsBannerGet
    /\ result.status = 200
    /\ ReqFresh0
    /\ "op" \in DOMAIN op.query /\ op.query["op"] = <<"G", "T", "E">>
    /\ "threshold" \in DOMAIN op.query /\ op.query["threshold"] = "6"
    /\ result.body.uv_index = 600
    /\ result.body.matched
    /\ result.body.show_uv_creative

\* --------------------------------------------------------------- the bands
\* Severity order of the bands.
BandRank(desc) ==
    IF desc = "Low" THEN 1
    ELSE IF desc = "Moderate" THEN 2
    ELSE IF desc = "High" THEN 3
    ELSE IF desc = "Very High" THEN 4
    ELSE 5

\* The band the bucket rule gives a uv value (in hundredths).
BandOf(uv) ==
    IF uv <= 200 THEN "Low"
    ELSE IF uv <= 500 THEN "Moderate"
    ELSE IF uv <= 700 THEN "High"
    ELSE IF uv <= 1000 THEN "Very High"
    ELSE "Extreme"

\* C14: the band of every reading fetch_uv produced (the one main just got
\* and those stored) is given by the bucket rule from its uv_index alone;
\* among the readings, equal uv gives equal band and a larger uv never a
\* lower band; 2, 5, 7 and 10 fall in Low, Moderate, High and Very High.
C14_BandIsMonotonicBucket ==
    LET readings == {Reading(local[i]) : i \in DOMAIN local}
                      \cup (IF op.name = "main" /\ result.exc = "none"
                            THEN {result.data} ELSE {})
    IN  /\ \A r \in readings :
              /\ r.uv_desc = BandOf(r.uv_index)
              /\ r.uv_index = 200 => r.uv_desc = "Low"
              /\ r.uv_index = 500 => r.uv_desc = "Moderate"
              /\ r.uv_index = 700 => r.uv_desc = "High"
              /\ r.uv_index = 1000 => r.uv_desc = "Very High"
        /\ \A r1, r2 \in readings :
              /\ r1.uv_index = r2.uv_index => r1.uv_desc = r2.uv_desc
              /\ r1.uv_index <= r2.uv_index
                    => BandRank(r1.uv_desc) <= BandRank(r2.uv_desc)

\* Readings at the boundary 7 and just above it are stored.
C14_Witness ==
    /\ op.name = "main"
    /\ result.exc = "none"
    /\ result.data.uv_index = 701
    /\ result.data.uv_desc = "Very High"
    /\ \E i \in DOMAIN local : local[i].uv_index = 700 /\ local[i].uv_desc = "High"

\* ------------------------------------------------------------------- batch
\* The locations a run of the tool targets: the named one, or every location
\* of the table when no argument is given.
Targeted == IF op.argv = <<>> THEN CITIES ELSE {Canon(op.argv[1])} \cap CITIES

\* C15: a run of the tool attempts every location it targets (one request
\* to the provider for each, whatever happened to the others) and ends with
\* a failure status only if no targeted location was fetched and stored.
C15_BatchAttemptsEveryLocation ==
    op.name = "main"
        => /\ Count(calls, "upstream_get") = Cardinality(Targeted)
           /\ result.exit # 0 => ~Has(calls, "local_insert", "ok")

\* --------------------------------------------------------- the local store
\* C16: an operation whose save wrote SQLite appends exactly one row, the
\* reading it fetched, and leaves every existing row as it was; no other
\* operation changes the table; with Supabase not configured, get_uv(key)
\* returns the row inserted last for the key and get_uv() the row inserted
\* last overall.
C16_LocalAppendOnlyLatestRead ==
    [][ /\ (op'.name \in {"main", "do_GET"} /\ Has(calls', "local_insert", "ok"))
            => /\ Count(calls', "local_insert") = 1
               /\ Len(local') = Len(local) + 1
               /\ SubSeq(local', 1, Len(local)) = local
               /\ local'[Len(local')].id \notin {local[i].id : i \in DOMAIN local}
               /\ op'.name = "main"
                    => Reading(local'[Len(local')]) = result'.data
               /\ (op'.name = "do_GET" /\ result'.status = 200)
                    => local'[Len(local')].timestamp = result'.body.timestamp
        /\ ~Has(calls', "local_insert", "ok") => local' = local
        /\ (op'.name = "get_uv" /\ ~configured)
            => /\ (Truthy(op'.city) /\ StoredFor(local, Canon(op'.city)) # {})
                    => /\ result'.exc = "none"
                       /\ result'.row = NewestFor(local, Canon(op'.city))
               /\ (~Truthy(op'.city) /\ local # <<>>)
                    => /\ result'.exc = "none"
                       /\ result'.row = local[Len(local)]
      ]_vars

\* get_uv(key) with two rows stored for the key, Supabase not configured.
C16_Witness ==
    /\ IsGetUvFor
    /\ ~configured
    /\ Cardinality(StoredFor(local, Canon(op.city))) = 2
    /\ result.row = local[Len(local)]
    /\ local[1].uv_index # local[2].uv_index

\* ---------------------------------------------------------- location names
\* Every spelling of a location name that reaches fetch_uv or get_uv.
Spellings == ReadCities \cup CITIES

\* Two spellings differ only in letter case or surrounding whitespace.
SameName(n1, n2) == Lower(Strip(n1)) = Lower(Strip(n2))

\* The name a main or do_GET operation was given.
GivenName(o) ==
    IF o.name = "main"
    THEN (IF Len(o.argv) > 0 THEN o.argv[1] ELSE DEFAULT_CITY)
    ELSE QueryGet(o.query, "city", DEFAULT_CITY)

\* C17: a reading fetched under the name n is stored under the trimmed,
\* title-cased n, and get_uv(n') looks up the trimmed, title-cased n': for
\* every n that differs from n' only in letter case or surrounding
\* whitespace and has a reading stored, get_uv(n'), when it returns, returns
\* a reading stored for n, the one with the latest timestamp in Supabase
\* when the Supabase lookup gave a row and else the one inserted last in
\* SQLite.
C17_NamesCanonicalOnEveryPath ==
    [][ /\ ((op'.name = "main" \/ (op'.name = "do_GET" /\ op'.path = "/banner/uv"))
                /\ Has(calls', "local_insert", "ok"))
            => /\ local'[Len(local')].city = Title(Strip(GivenName(op')))
               /\ Has(calls', "remote_post", "ok")
                    => remote'[Len(remote')].city = Title(Strip(GivenName(op')))
        /\ (op'.name = "get_uv" /\ Truthy(op'.city) /\ result'.exc = "none")
            => \A n \in Spellings :
                  (SameName(n, op'.city) /\ StoredFor(local, Title(Strip(n))) # {})
                    => /\ Truthy(result'.row)
                       /\ result'.row =
                            IF Has(calls', "remote_get", "ok")
                                  /\ StoredFor(remote, Title(Strip(n))) # {}
                            THEN LatestByTime(remote, Title(Strip(n)))
                            ELSE NewestFor(local, Title(Strip(n)))
      ]_vars

\* get_uv("GOA") answered from Supabase with the reading saved as " gOA ".
C17_Witness ==
    /\ op.name = "get_uv"
    /\ op.city = <<"G", "O", "A">>
    /\ Has(calls, "remote_get", "ok")
    /\ Truthy(result.row)
    /\ result.row.city = Goa
    /\ StoredFor(remote, Goa) # {}

\* ---------------------------------------------------- concurrent requests
\* The save of thread t has written SQLite in this step.
Committed(t) ==
    handlers[t].pc = "commit" /\ handlers'[t].pc \in {"post", "respond"}

\* The positions of the SQLite rows that hold a reading.
RowsHolding(rows, reading) == {i \in DOMAIN rows : Reading(rows[i]) = reading}

\* C18: with requests served concurrently, a save that completes its SQLite
\* write adds exactly one row, holding the reading its own request fetched,
\* and leaves the other rows as they were; no other step changes the table;
\* the reading of every request whose save completed is in exactly one row
\* from then on; and a 200 response of a request that fetched reports the
\* reading that this request fetched.
C18_ConcurrentSavesKeepEveryRow ==
    [][ /\ \A t \in Threads :
              Committed(t)
                => /\ Len(local') = Len(local) + 1
                   /\ SubSeq(local', 1, Len(local)) = local
                   /\ Reading(local'[Len(local')]) = handlers[t].fetched
        /\ (\A t \in Threads : ~Committed(t)) => local' = local
        /\ \A t \in Threads :
              (/\ Truthy(handlers'[t].fetched)
               /\ \/ handlers'[t].pc \in {"post", "respond"}
                  \/ handlers'[t].pc = "done" /\ handlers'[t].response.status = 200)
                => Cardinality(RowsHolding(local', handlers'[t].fetched)) = 1
        /\ \A t \in Threads :
              (/\ handlers'[t].pc = "done"
               /\ handlers'[t].response.status = 200
               /\ Truthy(handlers'[t].fetched))
                => LET body == handlers'[t].response.body
                   IN  /\ body.timestamp = handlers'[t].fetched.timestamp
                       /\ body.city = handlers'[t].fetched.city
                       /\ body.uv_index = handlers'[t].fetched.uv_index
                       /\ body.uv_desc = handlers'[t].fetched.uv_desc
      ]_vars

\* Two requests for one city in flight at once, each with its fetched
\* reading saved, one already answered.
C18_Witness ==
    /\ handlers[1].pc = "done" /\ handlers[1].response.status = 200
    /\ handlers[2].pc = "respond"
    /\ Truthy(handlers[1].fetched) /\ Truthy(handlers[2].fetched)
    /\ handlers[1].fetched.city = handlers[2].fetched.city
    /\ handlers[2].fetched.timestamp < handlers[1].fetched.timestamp
    /\ Len(local) = 2
    /\ Reading(local[1]) = handlers[1].fetched

\* --------------------------------------------------- order of the two writes
\* C19: every reading in the Supabase table is also in the SQLite table; an
\* operation posts to Supabase only after its SQLite write succeeded, and
\* makes no Supabase write when its SQLite write failed.
C19_RemoteOnlyAfterLocal ==
    /\ \A i \in DOMAIN remote :
          \E j \in DOMAIN local : Reading(local[j]) = Reading(remote[i])
    /\ \A i \in DOMAIN calls :
          calls[i].fn = "remote_post"
            => (i > 1 /\ calls[i - 1] = Call("local_insert", "ok"))
    /\ (Has(calls, "local_insert", "connect_error")
            \/ Has(calls, "local_insert", "insert_error"))
          => ~Made(calls, "remote_post")

\* A save whose SQLite write failed, with Supabase configured and holding a
\* row of an earlier save.
C19_Witness ==
    /\ op.name = "main"
    /\ configured
    /\ Has(calls, "local_insert", "insert_error")
    /\ ~Made(calls, "remote_post")
    /\ remote # <<>>
    /\ Len(remote) = Len(local)

\* ------------------------------------------------- the empty Supabase read
\* C20: when the Supabase read of get_uv(key) succeeds and gives no row for
\* the key, get_uv goes on to SQLite; it returns the row inserted last for
\* the key there if there is one, and it returns the empty value only when
\* SQLite holds no row for the key either.
C20_EmptyRemoteFallsBackToLocal ==
    (IsGetUvFor /\ Has(calls, "remote_get", "ok")
        /\ StoredFor(remote, Title(Strip(op.city))) = {})
        => /\ Len(calls) = 2 /\ calls[2].fn = "local_select"
           /\ StoredFor(local, Title(Strip(op.city))) # {}
                => /\ result.exc = "none"
                   /\ result.row = NewestFor(local, Title(Strip(op.city)))
           /\ (result.exc = "none" /\ result.row = EmptyDict)
                => StoredFor(local, Title(Strip(op.city))) = {}

\* The Supabase read gave nothing for the key and SQLite has its reading.
C20_Witness ==
    /\ IsGetUvFor
    /\ Has(calls, "remote_get", "ok")
    /\ StoredFor(remote, Title(Strip(op.city))) = {}
    /\ StoredFor(local, Title(Strip(op.city))) # {}
    /\ Truthy(result.row)
    /\ remote # <<>>

====
